---- MODULE Spec2Model ----
(***************************************************************************)
(* A model of n2v.csf_graph.CSFGraph: the constructor that reads an edge   *)
(* file into a compressed (CSR) adjacency structure, and the query methods *)
(* on the constructed object.                                              *)
(*                                                                         *)
(* Conventions                                                             *)
(*  - a character is a natural number (its code point), a node label is a  *)
(*    non-empty sequence of characters, compared as Python compares str;   *)
(*  - a float is a rational with denominator WeightDen, or NaN;            *)
(*  - numpy arrays and Python lists are sequences; the code's 0-based      *)
(*    index i is position i + 1 (operator At);                             *)
(*  - a dict is a function; a defaultdict read of a missing key inserts    *)
(*    the default (operators Touch / Get).                                 *)
(***************************************************************************)
EXTENDS Integers, Sequences, FiniteSets, TLC

VARIABLES arg, file, pc, err,
          node_to_index_map, index_to_node_map,
          edge_to, edge_weight, offset_to_edge_,
          edgetype2count_dictionary, nodetype2count_dictionary,
          last

vars == <<arg, file, pc, err, node_to_index_map, index_to_node_map,
          edge_to, edge_weight, offset_to_edge_,
          edgetype2count_dictionary, nodetype2count_dictionary, last>>

graph == <<node_to_index_map, index_to_node_map, edge_to, edge_weight,
           offset_to_edge_, edgetype2count_dictionary,
           nodetype2count_dictionary>>

-----------------------------------------------------------------------------
(* Bounds of the model *)

MaxLines == 2
WeightDen == 2

(* The labels "g", "gp" and "p" (1 = 'g', 2 = 'p') *)
Labels == {<<1>>, <<1, 2>>, <<2>>}

(* The third field of a line: a number (v / WeightDen: one non-integral    *)
(* value between 1 and 2, and 2.0), "nan", or text float() rejects.        *)
NumFields == {[k |-> "num", v |-> WeightDen + 1], [k |-> "num", v |-> 2 * WeightDen]}
NanField == [k |-> "nan", v |-> 0]
BadField == [k |-> "bad", v |-> 0]

(* A line after split(): nf fields; a, b, w are fields 0, 1, 2 when nf = 3. *)
Line(a, b, w) == [nf |-> 3, a |-> a, b |-> b, w |-> w]
NumLines == {Line(a, b, w) : a \in Labels, b \in Labels, w \in NumFields}
(* "g p nan" *)
NanLines == {Line(<<1>>, <<2>>, NanField)}
(* "gp g x" and "p p x" *)
BadLines == {Line(<<1, 2>>, <<1>>, BadField), Line(<<2>>, <<2>>, BadField)}
(* "p gp" *)
ShortLines == {[nf |-> 2, a |-> <<2>>, b |-> <<1, 2>>, w |-> BadField]}
Lines == NumLines \cup NanLines \cup BadLines \cup ShortLines
Files == UNION {[1..n -> Lines] : n \in 0..MaxLines}
Args == {"None", "notstr", "missing", "file"}

-----------------------------------------------------------------------------
(* Python / numpy primitives used by the class *)

EmptyMap == [x \in {} |-> 0]

(* d[key] on a defaultdict: the value read, and the dict afterwards *)
Get(d, key, default) == IF key \in DOMAIN d THEN d[key] ELSE default
Touch(d, key, default) == IF key \in DOMAIN d THEN d ELSE d @@ (key :> default)

(* d[key] += 1 on a defaultdict(int) *)
Incr(d, key) == IF key \in DOMAIN d THEN [d EXCEPT ![key] = @ + 1] ELSE d @@ (key :> 1)

(* arr[i] for a 0-based index *)
At(arr, i) == arr[i + 1]

(* str.__lt__ *)
RECURSIVE LabelLess(_, _)
LabelLess(s, t) ==
    IF s = <<>> THEN t # <<>>
    ELSE IF t = <<>> THEN FALSE
    ELSE IF Head(s) = Head(t) THEN LabelLess(Tail(s), Tail(t))
    ELSE Head(s) < Head(t)

(* float(fields[2]) succeeds: Python's float() accepts "nan" *)
ParseOk(f) == f.k # "bad"

(* int32 array element assignment of a float: NaN raises ValueError, a     *)
(* finite value is truncated towards zero.                                 *)
StoreRaises(w) == w.k = "nan"
ToInt32(w) == IF w.v >= 0 THEN w.v \div WeightDen ELSE -((-w.v) \div WeightDen)

-----------------------------------------------------------------------------
(* CSFGraph.Edge *)

Edge(nA, nB, w) == [nodeA |-> nA, nodeB |-> nB, weight |-> w]

(* "".join(sorted([na, nb])) over the first characters of the two labels *)
get_edge_type_string(e) ==
    LET na == Head(e.nodeA)
        nb == Head(e.nodeB)
    IN  IF na <= nb THEN <<na, nb>> ELSE <<nb, na>>

(* Edge.__eq__ / __hash__: the weight is not part of an edge's identity *)
EdgeEq(e, o) == <<e.nodeA, e.nodeB>> = <<o.nodeA, o.nodeB>>

(* Edge.__lt__ comparing the destination first *)
EdgeLessByDest(e, o) ==
    IF e.nodeB = o.nodeB THEN LabelLess(e.nodeA, o.nodeA)
    ELSE LabelLess(e.nodeB, o.nodeB)

(* Edge.__lt__ *)
EdgeLess(e, o) ==
    IF e.nodeA = o.nodeA THEN LabelLess(e.nodeB, o.nodeB)
    ELSE LabelLess(e.nodeA, o.nodeA)

(* set.add with the weight taken as part of an edge's identity *)
EdgeAddByWeight(S, e) == S \cup {e}

(* set.add on a set of Edge objects: an equal element already present stays *)
EdgeAdd(S, e) == IF \E x \in S : EdgeEq(x, e) THEN S ELSE S \cup {e}

-----------------------------------------------------------------------------
(* CSFGraph.__init__ *)

NoInput == [nodes |-> {}, edges |-> {}, edgetype |-> EmptyMap]

(* The body of the loop over the lines of the file *)
ReadLine(acc, line) ==
    IF line.nf # 3 THEN acc
    ELSE IF ~ParseOk(line.w) THEN acc
    ELSE LET edge == Edge(line.a, line.b, line.w)
             inverse_edge == Edge(line.b, line.a, line.w)
         IN  [nodes |-> acc.nodes \cup {line.a, line.b},
              edges |-> EdgeAdd(EdgeAdd(acc.edges, edge), inverse_edge),
              edgetype |-> Incr(acc.edgetype, get_edge_type_string(edge))]

RECURSIVE ReadLines(_, _, _)
ReadLines(f, k, acc) ==
    IF k > Len(f) THEN acc ELSE ReadLines(f, k + 1, ReadLine(acc, f[k]))

ReadFile(f) == ReadLines(f, 1, NoInput)

(* sorted(nodes) *)
RECURSIVE SortedNodes(_)
SortedNodes(S) ==
    IF S = {} THEN <<>>
    ELSE LET m == CHOOSE x \in S : \A y \in S : ~LabelLess(y, x)
         IN  <<m>> \o SortedNodes(S \ {m})

(* sorted(edges) *)
RECURSIVE SortedEdges(_)
SortedEdges(S) ==
    IF S = {} THEN <<>>
    ELSE LET m == CHOOSE x \in S : \A y \in S : ~EdgeLess(y, x)
         IN  <<m>> \o SortedEdges(S \ {m})

(* the loop filling node_to_index_map and index_to_node_map *)
NodeToIndex(node_list) ==
    [n \in {node_list[k] : k \in 1..Len(node_list)} |->
        (CHOOSE k \in 1..Len(node_list) : node_list[k] = n) - 1]
IndexToNode(node_list) == [i \in 0..(Len(node_list) - 1) |-> At(node_list, i)]

(* first pass: how many edges emanate from each source *)
CountPass(edge_list, n2i) ==
    [i \in {n2i[edge_list[k].nodeA] : k \in 1..Len(edge_list)} |->
        Cardinality({k \in 1..Len(edge_list) : n2i[edge_list[k].nodeA] = i})]

(* second pass: the running offset after the first i nodes of node_list *)
RECURSIVE OffsetAfter(_, _, _, _)
OffsetAfter(node_list, n2i, index2edge_count, i) ==
    IF i = 0 THEN 0
    ELSE OffsetAfter(node_list, n2i, index2edge_count, i - 1)
            + Get(index2edge_count, n2i[node_list[i]], 0)

(* second pass storing each node's edge count, the running sum forgotten *)
OffsetPassNoSum(node_list, n2i, index2edge_count) ==
    [i \in 1..(Len(node_list) + 1) |->
        IF i = 1 THEN 0 ELSE Get(index2edge_count, n2i[node_list[i - 1]], 0)]

OffsetPass(node_list, n2i, index2edge_count) ==
    [i \in 1..(Len(node_list) + 1) |->
        OffsetAfter(node_list, n2i, index2edge_count, i - 1)]

NodeTypePass(node_list) ==
    [t \in {Head(node_list[k]) : k \in 1..Len(node_list)} |->
        Cardinality({k \in 1..Len(node_list) : Head(node_list[k]) = t})]

(* third pass: entry j of the sorted edge list is written at position j *)
FillEdgeTo(edge_list, n2i) ==
    [j \in 1..Len(edge_list) |-> n2i[edge_list[j].nodeB]]
FillEdgeWeight(edge_list) ==
    [j \in 1..Len(edge_list) |-> ToInt32(edge_list[j].weight)]

(* No object exists when the constructor raises *)
NoGraph(exc) ==
    [exc |-> exc, n2i |-> EmptyMap, i2n |-> EmptyMap, edge_to |-> <<>>,
     edge_weight |-> <<>>, offset |-> <<>>, edgetype |-> EmptyMap,
     nodetype |-> EmptyMap]

(* The constructor on an existing file with lines f *)
BuildGraph(f) ==
    LET r == ReadFile(f)
        node_list == SortedNodes(r.nodes)
        edge_list == SortedEdges(r.edges)
        n2i == NodeToIndex(node_list)
    IN  IF \E j \in 1..Len(edge_list) : StoreRaises(edge_list[j].weight)
        THEN NoGraph("ValueError")
        ELSE [exc |-> "",
              n2i |-> n2i,
              i2n |-> IndexToNode(node_list),
              edge_to |-> FillEdgeTo(edge_list, n2i),
              edge_weight |-> FillEdgeWeight(edge_list),
              offset |-> OffsetPass(node_list, n2i, CountPass(edge_list, n2i)),
              edgetype |-> r.edgetype,
              nodetype |-> NodeTypePass(node_list)]

(* filepath is None, is not a str, or names no file: TypeError *)
New(a, f) == IF a # "file" THEN NoGraph("TypeError") ELSE BuildGraph(f)

NoCall == [op |-> "none", args |-> <<>>, exc |-> "", ret |-> 0]

Init ==
    /\ arg \in Args
    /\ file \in (IF arg = "file" THEN Files ELSE {<<>>})
    /\ pc = "new"
    /\ err = ""
    /\ node_to_index_map = EmptyMap
    /\ index_to_node_map = EmptyMap
    /\ edge_to = <<>>
    /\ edge_weight = <<>>
    /\ offset_to_edge_ = <<>>
    /\ edgetype2count_dictionary = EmptyMap
    /\ nodetype2count_dictionary = EmptyMap
    /\ last = NoCall

Construct ==
    /\ pc = "new"
    /\ LET g == New(arg, file)
       IN  /\ pc' = IF g.exc = "" THEN "done" ELSE "failed"
           /\ err' = g.exc
           /\ node_to_index_map' = g.n2i
           /\ index_to_node_map' = g.i2n
           /\ edge_to' = g.edge_to
           /\ edge_weight' = g.edge_weight
           /\ offset_to_edge_' = g.offset
           /\ edgetype2count_dictionary' = g.edgetype
           /\ nodetype2count_dictionary' = g.nodetype
    /\ UNCHANGED <<arg, file, last>>

-----------------------------------------------------------------------------
(* The query methods.  Each operator gives the outcome of one call in the  *)
(* current state: the exception raised ("" if none), the value returned,   *)
(* and the two dicts as the call leaves them.                              *)

Outcome(exc, ret, n2i, i2n) == [exc |-> exc, ret |-> ret, n2i |-> n2i, i2n |-> i2n]

(* Touch for every key of K *)
TouchAll(d, K, default) ==
    [k \in (DOMAIN d) \cup K |-> IF k \in DOMAIN d THEN d[k] ELSE default]

(* offset_to_edge_[source_idx + 1] is out of bounds: numpy raises IndexError *)
BlockRaises(source_idx) == ~(source_idx + 1 < Len(offset_to_edge_))

(* range(offset_to_edge_[source_idx], offset_to_edge_[source_idx + 1]) *)
BlockLo(source_idx) == At(offset_to_edge_, source_idx)
BlockHi(source_idx) == At(offset_to_edge_, source_idx + 1)
Block(source_idx) == BlockLo(source_idx)..(BlockHi(source_idx) - 1)

SetMin(S) == CHOOSE x \in S : \A y \in S : x <= y

(* list(d.keys()): the keys, as a set *)
nodes == Outcome("", DOMAIN node_to_index_map, node_to_index_map, index_to_node_map)

nodes_as_integers ==
    Outcome("", DOMAIN index_to_node_map, node_to_index_map, index_to_node_map)

node_count ==
    Outcome("", Cardinality(DOMAIN node_to_index_map), node_to_index_map, index_to_node_map)

edge_count == Outcome("", Len(edge_to), node_to_index_map, index_to_node_map)

weight(source, dest) ==
    LET n2i == Touch(Touch(node_to_index_map, source, 0), dest, 0)
        source_idx == n2i[source]
        dest_idx == n2i[dest]
        hits == {i \in Block(source_idx) : At(edge_to, i) = dest_idx}
    IN  IF BlockRaises(source_idx) THEN Outcome("IndexError", 0, n2i, index_to_node_map)
        ELSE IF hits = {} THEN Outcome("TypeError", 0, n2i, index_to_node_map)
        ELSE Outcome("", At(edge_weight, SetMin(hits)), n2i, index_to_node_map)

neighbors(source) ==
    LET n2i == Touch(node_to_index_map, source, 0)
        source_idx == n2i[source]
        lo == BlockLo(source_idx)
        n == BlockHi(source_idx) - lo
        i2n == TouchAll(index_to_node_map, {At(edge_to, i) : i \in Block(source_idx)}, <<>>)
    IN  IF BlockRaises(source_idx) THEN Outcome("IndexError", <<>>, n2i, index_to_node_map)
        ELSE Outcome("", [k \in 1..n |-> i2n[At(edge_to, lo + k - 1)]], n2i, i2n)

has_edge(src, dest) ==
    LET n2i == Touch(Touch(node_to_index_map, src, 0), dest, 0)
        source_idx == n2i[src]
        dest_idx == n2i[dest]
    IN  IF BlockRaises(source_idx) THEN Outcome("IndexError", FALSE, n2i, index_to_node_map)
        ELSE Outcome("", \E i \in Block(source_idx) : At(edge_to, i) = dest_idx,
                     n2i, index_to_node_map)

same_nodetype(n1, n2) ==
    Outcome("", Head(n1) = Head(n2), node_to_index_map, index_to_node_map)

(* the tuples appended for the source indices below source_idx *)
RECURSIVE EdgesBelow(_, _)
EdgesBelow(i2n, source_idx) ==
    IF source_idx = 0 THEN <<>>
    ELSE LET s == source_idx - 1
             lo == BlockLo(s)
             n == BlockHi(s) - lo
         IN  EdgesBelow(i2n, s) \o [k \in 1..n |-> <<i2n[s], i2n[At(edge_to, lo + k - 1)]>>]

edges ==
    LET n == Len(offset_to_edge_) - 1
        read == (0..(n - 1)) \cup UNION {{At(edge_to, j) : j \in Block(s)} : s \in 0..(n - 1)}
        i2n == TouchAll(index_to_node_map, read, <<>>)
    IN  Outcome("", EdgesBelow(i2n, n), node_to_index_map, i2n)

(* One call op(args) with outcome o *)
Call(op, args, o) ==
    /\ pc = "done"
    /\ node_to_index_map' = o.n2i
    /\ index_to_node_map' = o.i2n
    /\ last' = [op |-> op, args |-> args, exc |-> o.exc, ret |-> o.ret]
    /\ UNCHANGED <<arg, file, pc, err, edge_to, edge_weight, offset_to_edge_,
                   edgetype2count_dictionary, nodetype2count_dictionary>>

CallNodes == Call("nodes", <<>>, nodes)
CallNodesAsIntegers == Call("nodes_as_integers", <<>>, nodes_as_integers)
CallNodeCount == Call("node_count", <<>>, node_count)
CallEdgeCount == Call("edge_count", <<>>, edge_count)
CallWeight == \E source, dest \in Labels : Call("weight", <<source, dest>>, weight(source, dest))
CallNeighbors == \E source \in Labels : Call("neighbors", <<source>>, neighbors(source))
CallHasEdge == \E src, dest \in Labels : Call("has_edge", <<src, dest>>, has_edge(src, dest))
CallSameNodetype == \E n1, n2 \in Labels : Call("same_nodetype", <<n1, n2>>, same_nodetype(n1, n2))
CallEdges == Call("edges", <<>>, edges)

Next ==
    \/ Construct
    \/ CallNodes
    \/ CallNodesAsIntegers
    \/ CallNodeCount
    \/ CallEdgeCount
    \/ CallWeight
    \/ CallNeighbors
    \/ CallHasEdge
    \/ CallSameNodetype
    \/ CallEdges


Spec == Init /\ [][Next]_vars

-----------------------------------------------------------------------------
(* What the input file says, read off the file itself *)

Constructed == pc = "done"

(* No query has run on the object yet *)
Fresh == last = NoCall

(* three fields, the third one accepted by float() *)
WellFormed(line) == line.nf = 3 /\ line.w.k # "bad"

AcceptedIdx == {k \in 1..Len(file) : WellFormed(file[k])}

(* the labels, the directed pairs and the unordered pairs of the accepted lines *)
GraphNodes == {file[k].a : k \in AcceptedIdx} \cup {file[k].b : k \in AcceptedIdx}
InputPairs == {<<file[k].a, file[k].b>> : k \in AcceptedIdx}
SymPairs == InputPairs \cup {<<p[2], p[1]>> : p \in InputPairs}
UnorderedPairs == {{p[1], p[2]} : p \in InputPairs}

(* the first accepted line naming the unordered pair {a, b} *)
FirstLine(a, b) ==
    LET ks == {k \in AcceptedIdx : {file[k].a, file[k].b} = {a, b}}
    IN  file[CHOOSE k \in ks : \A m \in ks : k <= m]

(* an integer i returned by weight() compares equal to the float w *)
EqFloat(i, w) == w.k = "num" /\ i * WeightDen = w.v

(* a call returned the value v *)
Returns(o, v) == o.exc = "" /\ o.ret = v

-----------------------------------------------------------------------------
(* C1  Symmetry: after construction, for every accepted line (a, b, w),    *)
(* has_edge(a, b) and has_edge(b, a) return True and weight(a, b) and      *)
(* weight(b, a) return w.                                                  *)
C1_Symmetry ==
    Constructed =>
        \A k \in AcceptedIdx :
            LET a == file[k].a
                b == file[k].b
                w == file[k].w
            IN  /\ Returns(has_edge(a, b), TRUE)
                /\ Returns(has_edge(b, a), TRUE)
                /\ weight(a, b).exc = "" /\ EqFloat(weight(a, b).ret, w)
                /\ weight(b, a).exc = "" /\ EqFloat(weight(b, a).ret, w)

-----------------------------------------------------------------------------
(* C2  Total edge accounting, as claimed: after construction edge_count(), *)
(* len(edge_to), len(edge_weight) and the last offset all equal twice the  *)
(* number of distinct unordered pairs {a, b} of the accepted lines, pairs  *)
(* with a = b included.                                                    *)
C2_TotalEdgeAccounting ==
    Constructed =>
        /\ Returns(edge_count, 2 * Cardinality(UnorderedPairs))
        /\ Len(edge_to) = edge_count.ret
        /\ Len(edge_weight) = edge_count.ret
        /\ At(offset_to_edge_, Len(offset_to_edge_) - 1) = edge_count.ret

(* C2 as amended: the count is two per distinct unordered pair of two       *)
(* different labels plus one per distinct label paired with itself.        *)
C2_TotalEdgeAccountingAmended ==
    Constructed =>
        /\ Returns(edge_count,
                   2 * Cardinality({p \in UnorderedPairs : Cardinality(p) = 2})
                     + Cardinality({p \in UnorderedPairs : Cardinality(p) = 1}))
        /\ Len(edge_to) = edge_count.ret
        /\ Len(edge_weight) = edge_count.ret
        /\ At(offset_to_edge_, Len(offset_to_edge_) - 1) = edge_count.ret

(* edge_count() was called on a graph built from a file that names a loop  *)
(* and an edge between two different nodes.                                *)
C2_Witness ==
    /\ Constructed
    /\ last.op = "edge_count"
    /\ \E p \in UnorderedPairs : Cardinality(p) = 1
    /\ \E p \in UnorderedPairs : Cardinality(p) = 2

-----------------------------------------------------------------------------
(* C3  Read-only after construction: whatever queries have run, the three  *)
(* arrays and the two index maps are as the constructor built them, and    *)
(* node_count() and nodes() return what they returned at first.            *)
C3_ReadOnly ==
    Constructed =>
        LET g == New(arg, file)
        IN  /\ offset_to_edge_ = g.offset
            /\ edge_to = g.edge_to
            /\ edge_weight = g.edge_weight
            /\ node_to_index_map = g.n2i
            /\ index_to_node_map = g.i2n
            /\ Returns(node_count, Cardinality(DOMAIN g.n2i))
            /\ Returns(nodes, DOMAIN g.n2i)

-----------------------------------------------------------------------------
(* C4  weight(source, dest) raises, and returns nothing, whenever the      *)
(* directed edge (source, dest) is not stored in the graph, for all labels. *)
C4_WeightRaises ==
    (Constructed /\ last.op = "weight" /\ <<last.args[1], last.args[2]>> \notin SymPairs)
        => last.exc # ""

-----------------------------------------------------------------------------
(* C5  Malformed-line resilience: construction from an existing file       *)
(* completes without error and yields the graph (index maps, arrays, type  *)
(* counts) built from the well-formed lines alone.                         *)
C5_MalformedLineResilience ==
    (pc # "new" /\ arg = "file" /\ Fresh) =>
        LET g == BuildGraph(SelectSeq(file, WellFormed))
        IN  /\ pc = "done"
            /\ err = ""
            /\ graph = <<g.n2i, g.i2n, g.edge_to, g.edge_weight, g.offset,
                         g.edgetype, g.nodetype>>

-----------------------------------------------------------------------------
(* C6  First-seen-wins: when an unordered pair {a, b} is named on several  *)
(* accepted lines with different weights, in either orientation, one entry *)
(* per direction is stored and weight(a, b) and weight(b, a) both return   *)
(* the weight of the first such line.                                      *)
C6_FirstSeenWins ==
    Constructed =>
        \A k, m \in AcceptedIdx :
            (/\ k < m
             /\ {file[k].a, file[k].b} = {file[m].a, file[m].b}
             /\ file[k].w # file[m].w) =>
                LET a == file[k].a
                    b == file[k].b
                    w == FirstLine(a, b).w
                    na == node_to_index_map[a]
                    nb == node_to_index_map[b]
                IN  /\ Cardinality({i \in Block(na) : At(edge_to, i) = nb}) = 1
                    /\ Cardinality({i \in Block(nb) : At(edge_to, i) = na}) = 1
                    /\ weight(a, b).exc = "" /\ EqFloat(weight(a, b).ret, w)
                    /\ weight(b, a).exc = "" /\ EqFloat(weight(b, a).ret, w)

-----------------------------------------------------------------------------
(* C7  Index bijection: in every state after construction, queries         *)
(* included, every label n of nodes() has                                  *)
(* index_to_node_map[node_to_index_map[n]] = n, the indices are            *)
(* 0..node_count()-1, and a label that sorts lower has the lower index.    *)
C7_IndexBijection ==
    Constructed =>
        /\ \A n \in nodes.ret :
               Get(index_to_node_map, node_to_index_map[n], <<>>) = n
        /\ {node_to_index_map[n] : n \in nodes.ret} = 0..(node_count.ret - 1)
        /\ \A n, m \in nodes.ret :
               LabelLess(n, m) <=> node_to_index_map[n] < node_to_index_map[m]

-----------------------------------------------------------------------------
(* C8  Offset consistency: after construction offset_to_edge_ has one      *)
(* entry more than the graph has nodes (node_count() as the constructor    *)
(* leaves it), starts at 0, never decreases, ends at len(edge_to), and the *)
(* block of node index i is as long as the number of directed edges the    *)
(* file gives node i, which is len(neighbors(index_to_node_map[i])).       *)
C8_OffsetConsistency ==
    Constructed =>
        /\ Len(offset_to_edge_) = Cardinality(GraphNodes) + 1
        /\ (Fresh => Returns(node_count, Len(offset_to_edge_) - 1))
        /\ At(offset_to_edge_, 0) = 0
        /\ \A i \in 0..(Len(offset_to_edge_) - 2) :
               At(offset_to_edge_, i) <= At(offset_to_edge_, i + 1)
        /\ At(offset_to_edge_, Len(offset_to_edge_) - 1) = Len(edge_to)
        /\ \A i \in 0..(Len(offset_to_edge_) - 2) :
               LET n == index_to_node_map[i]
                   d == At(offset_to_edge_, i + 1) - At(offset_to_edge_, i)
               IN  /\ d = Cardinality({p \in SymPairs : p[1] = n})
                   /\ neighbors(n).exc = ""
                   /\ d = Len(neighbors(n).ret)

(* neighbors() was called on a graph of three nodes and returned two labels *)
C8_Witness ==
    /\ Constructed
    /\ Len(offset_to_edge_) = 4
    /\ last.op = "neighbors"
    /\ last.exc = ""
    /\ Len(last.ret) = 2

-----------------------------------------------------------------------------
(* C9  Every edge lies in its source's block: for every node s of the      *)
(* graph, neighbors(s) returns exactly the labels d with (s, d) in the     *)
(* symmetrized accepted edge set, each once, in ascending order of index   *)
(* and of label.                                                           *)
C9_NeighborsExact ==
    Constructed =>
        \A s \in GraphNodes :
            LET r == neighbors(s)
            IN  /\ r.exc = ""
                /\ {r.ret[k] : k \in 1..Len(r.ret)} = {p[2] : p \in {q \in SymPairs : q[1] = s}}
                /\ \A i, j \in 1..Len(r.ret) :
                       i < j => /\ LabelLess(r.ret[i], r.ret[j])
                                /\ node_to_index_map[r.ret[i]] < node_to_index_map[r.ret[j]]

(* neighbors(s) returned two labels, the file naming s's edges out of order *)
C9_Witness ==
    /\ Constructed
    /\ last.op = "neighbors"
    /\ last.exc = ""
    /\ Len(last.ret) = 2
    /\ \E k, m \in AcceptedIdx :
           /\ k < m
           /\ file[k].a = last.args[1]
           /\ file[m].a = last.args[1]
           /\ LabelLess(file[m].b, file[k].b)

-----------------------------------------------------------------------------
(* C10  has_edge is exact for all labels: has_edge(src, dest) returns True *)
(* if and only if (src, dest) or (dest, src) is an accepted input edge,    *)
(* and neighbors(src) is empty for a src that is no node of the graph.     *)
C10_HasEdgeExact ==
    /\ (Constructed /\ last.op = "has_edge") =>
           Returns(last, <<last.args[1], last.args[2]>> \in SymPairs)
    /\ (Constructed /\ last.op = "neighbors" /\ last.args[1] \notin GraphNodes) =>
           Returns(last, <<>>)

====
